---- MODULE Spec2Model ----
(***************************************************************************)
(* Model of src/src/i2c.rs: the I2C master driver of stm32f103xx-hal.      *)
(*                                                                         *)
(* The constructor (i2c1 / i2c2 -> hal!::$i2cX), free, write and           *)
(* write_read are modelled one register access per step, so that the       *)
(* order of the accesses, the point at which an assert! aborts and the     *)
(* outcome of every poll of busy_wait! are visible in the state.           *)
(***************************************************************************)
EXTENDS Integers, Sequences, FiniteSets, TLC

VARIABLES
    pc,      \* position inside the running call; "idle" = no call is running
    op,      \* the function last entered: "none", "i2c1", "i2c2", "free", "write", "write_read"
    self,    \* the peripheral that call is about ("I2C1", "I2C2"; "none" at start)
    owned,   \* the peripherals for which an I2c handle exists
    cfg,     \* per peripheral, the arguments of its last constructor call
    args,    \* arguments of the last write / write_read call
    iter,    \* position of the running `for` loop in its slice (1-based)
    buffer,  \* the caller's buffer (write_read's `buffer: &mut [u8]`)
    regs,    \* the registers the driver touches (AFIO MAPR, RCC APB1, the I2C blocks)
    trace,   \* register accesses of the call last entered, in order
    poll,    \* the last iteration of busy_wait!: flag awaited, SR1 value read, outcome
    result,  \* return value of the last write / write_read: "none", "Ok" or an Error
    panic,   \* which assert! / arithmetic check aborted the program, "none" if none
    sr1      \* per peripheral, the error flags in the SR1 value the driver last read

vars == <<pc, op, self, owned, cfg, args, iter, buffer, regs, trace, poll, result, panic, sr1>>

-----------------------------------------------------------------------------
(* Bounds of the model *)

MaxLen == 2      \* longest `bytes` slice enumerated (besides the 256-byte one)
MaxBuf == 2      \* longest `buffer` slice enumerated (besides the 256-byte one)

(* Constants of the program *)

MaxFrequency == 400000     \* assert!(freq <= 400_000)
LenLimit == 256            \* assert!(bytes.len() < 256 && bytes.len() > 0)
MHz == 1000000             \* i2cclk / 1000000

-----------------------------------------------------------------------------
(* Integer casts: `x as u16`, `x as u8` keep the low bits *)

AsU16(x) == x % 65536
AsU8(x) == x % 256

Max(a, b) == IF a >= b THEN a ELSE b

(* enum Error *)
Errors == {"Bus", "Arbitration", "Acknowledge", "Overrun"}

(* enum DutyCycle, enum Mode *)
DutyCycles == {"Ratio1to1", "Ratio16to9"}

Standard(f) == [kind |-> "Standard", frequency |-> f]
Fast(f, d) == [kind |-> "Fast", frequency |-> f, duty_cycle |-> d]

get_frequency(mode) == mode.frequency

(* impl Pins<I2C1> / Pins<I2C2>: the pin pairs and their REMAP constant *)
Pins == [ I2C1 |-> { [pins |-> "PB6_PB7", REMAP |-> FALSE],
                     [pins |-> "PB8_PB9", REMAP |-> TRUE] },
          I2C2 |-> { [pins |-> "PB10_PB11", REMAP |-> FALSE] } ]

-----------------------------------------------------------------------------
(* Inputs enumerated *)

\* pclk1 values handed in by the clock tree (Hz)
ClocksWide == {500000, 1000000, 8000000, 9830400, 13107200, 36000000}
ClocksNarrow == {8000000}

FreqsWide == {0, 8, 50, 100, 100000, 400000, 400001}

ModesOver(F) == {Standard(f) : f \in F} \cup {Fast(f, d) : f \in F, d \in DutyCycles}

ModesWide == ModesOver(FreqsWide)
PinsNarrow == {[pins |-> "PB8_PB9", REMAP |-> TRUE]}
ModesNarrow == {Fast(400000, "Ratio16to9"), Standard(400001)}

\* arguments of write / write_read: addr, and slices of each length
Addrs == {66, 67}
DataByte(i) == (153 + 17 * i) % 256          \* 0xAA, 0xBB, 0xCC, ...
BytesOfLen(n) == [i \in 1..n |-> DataByte(i)]
BytesInputs == {BytesOfLen(n) : n \in (0..MaxLen) \cup {LenLimit}}
BufferInputs == {[i \in 1..n |-> 0] : n \in (0..MaxBuf) \cup {LenLimit}}

\* what the hardware may present: any SR1 flag combination, any of these data bytes
Flags == {"berr", "arlo", "af", "ovr", "sb", "addr", "tx_e", "rx_ne"}
SR1Values == SUBSET Flags
ErrorFlags == {"berr", "arlo", "af", "ovr"}
SlaveBytes == {17, 34}

-----------------------------------------------------------------------------
(* Registers *)

\* One access of a register, as recorded in `trace`
Acc(kind, reg, val) == [acc |-> kind, reg |-> reg, val |-> val]

\* An I2C block after the APB1 peripheral reset (reference-manual reset values).
\* Of CR1 only PE is kept as state; START and STOP are commands, recorded in `trace`.
I2cReset ==
    [ cr1   |-> [pe |-> FALSE],
      cr2   |-> [last |-> FALSE, dmaen |-> FALSE, itbufen |-> FALSE,
                 itevten |-> FALSE, iterren |-> FALSE, freq |-> 0],
      trise |-> 2,
      ccr   |-> [ccr |-> 0, duty |-> FALSE] ]

Periphs == {"I2C1", "I2C2"}

RegsInit ==
    [ mapr_i2c1_remap |-> FALSE,
      enr  |-> [p \in Periphs |-> FALSE],
      rstr |-> [p \in Periphs |-> FALSE],
      i2c  |-> [p \in Periphs |-> I2cReset] ]

NoPoll == [flag |-> "none", isr |-> {}, out |-> "none"]
NoArgs == [addr |-> 0, bytes |-> <<>>, buffer |-> <<>>]
NoCfg == [pins |-> "none", REMAP |-> FALSE, mode |-> Standard(0), i2cclk |-> 0]

Init ==
    /\ pc = "idle"
    /\ op = "none"
    /\ self = "none"
    /\ owned = {}
    /\ cfg = [p \in Periphs |-> NoCfg]
    /\ args = NoArgs
    /\ iter = 1
    /\ buffer = <<>>
    /\ regs = RegsInit
    /\ trace = <<>>
    /\ poll = NoPoll
    /\ result = "none"
    /\ panic = "none"
    /\ sr1 = [p \in Periphs |-> {}]

-----------------------------------------------------------------------------
(* Construction: I2c::i2c1 / I2c::i2c2, then hal!::$i2cX *)

TxnUnchanged == UNCHANGED <<args, iter, buffer, poll, result, sr1>>

\* what is recorded of a call starts afresh when the next call is entered
NewCall(name, p) ==
    /\ op' = name
    /\ self' = p
    /\ trace' = <<>>
    /\ poll' = NoPoll
    /\ result' = "none"
    /\ iter' = 1

\* (mutant) a constructor may run on a peripheral a handle already owns
Enter_unowned(p, name, P, M, C) ==
    /\ pc = "idle"
    /\ \E q \in P, m \in M, c \in C :
          cfg' = [cfg EXCEPT ![p] = [pins |-> q.pins, REMAP |-> q.REMAP,
                                     mode |-> m, i2cclk |-> c]]
    /\ NewCall(name, p)
    /\ args' = NoArgs
    /\ buffer' = <<>>
    /\ UNCHANGED <<owned, regs, panic, sr1>>

\* a constructor is entered: it takes the peripheral `p` the caller still holds
Enter(p, name, P, M, C) ==
    /\ pc = "idle"
    /\ p \notin owned
    /\ \E q \in P, m \in M, c \in C :
          cfg' = [cfg EXCEPT ![p] = [pins |-> q.pins, REMAP |-> q.REMAP,
                                     mode |-> m, i2cclk |-> c]]
    /\ NewCall(name, p)
    /\ args' = NoArgs
    /\ buffer' = <<>>
    /\ UNCHANGED <<owned, regs, panic, sr1>>

\* pub fn i2c1(i2c, pins, mapr, mode, clocks, apb): entry
i2c1(P, M, C) ==
    /\ Enter("I2C1", "i2c1", P, M, C)
    /\ pc' = "i2c1_mapr"

\* mapr.mapr().modify(|_, w| w.i2c1_remap().bit(PINS::REMAP));
i2c1_mapr ==
    /\ pc = "i2c1_mapr"
    /\ regs' = [regs EXCEPT !.mapr_i2c1_remap = cfg[self].REMAP]
    /\ trace' = Append(trace, Acc("modify", "AFIO_MAPR", 0))
    /\ pc' = "x_enr"
    /\ UNCHANGED <<op, self, owned, cfg, panic>>
    /\ TxnUnchanged

\* pub fn i2c2(i2c, pins, mode, clocks, apb): entry
i2c2(P, M, C) ==
    /\ Enter("I2C2", "i2c2", P, M, C)
    /\ pc' = "x_enr"

\* apb.enr().modify(|_, w| w.$i2cXen().enabled());
x_enr ==
    /\ pc = "x_enr"
    /\ regs' = [regs EXCEPT !.enr[self] = TRUE]
    /\ trace' = Append(trace, Acc("modify", "APB1_ENR", 0))
    /\ pc' = "x_rst_set"
    /\ UNCHANGED <<op, self, owned, cfg, panic>>
    /\ TxnUnchanged

\* (mutant) the reset bit leaves the block's registers as they are
reset_block_none(block) == block

\* what setting $i2cXrst does to the block's registers: all back to reset values
reset_block(block) == I2cReset

\* apb.rstr().modify(|_, w| w.$i2cXrst().set_bit());
x_rst_set ==
    /\ pc = "x_rst_set"
    /\ regs' = [regs EXCEPT !.rstr[self] = TRUE, !.i2c[self] = reset_block(@)]
    /\ trace' = Append(trace, Acc("modify", "APB1_RSTR", 1))
    /\ sr1' = [sr1 EXCEPT ![self] = {}]
    /\ pc' = "x_rst_clr"
    /\ UNCHANGED <<op, self, owned, cfg, panic>>
    /\ UNCHANGED <<args, iter, buffer, poll, result>>

\* apb.rstr().modify(|_, w| w.$i2cXrst().clear_bit());
x_rst_clr ==
    /\ pc = "x_rst_clr"
    /\ regs' = [regs EXCEPT !.rstr[self] = FALSE]
    /\ trace' = Append(trace, Acc("modify", "APB1_RSTR", 0))
    /\ pc' = "x_assert"
    /\ UNCHANGED <<op, self, owned, cfg, panic>>
    /\ TxnUnchanged

\* (mutant) the frequency is not checked
freq_ok_unchecked(freq) == TRUE

\* assert!(freq <= 400_000);
freq_ok(freq) == freq <= MaxFrequency

\* let freq = mode.get_frequency();  assert!(freq <= 400_000);
x_assert ==
    /\ pc = "x_assert"
    /\ IF freq_ok(get_frequency(cfg[self].mode))
          THEN pc' = "x_cr2" /\ panic' = panic
          ELSE pc' = "panicked" /\ panic' = "assert_freq"
    /\ UNCHANGED <<op, self, owned, cfg, regs, trace>>
    /\ TxnUnchanged

\* let freqrange = (i2cclk / 1000000) as u16;
freqrange(i2cclk) == AsU16(i2cclk \div MHz)

\* i2c.cr2.modify(|_, w| w.last().clear_bit()....freq().bits(freqrange as u8));
x_cr2 ==
    /\ pc = "x_cr2"
    /\ regs' = [regs EXCEPT !.i2c[self].cr2 =
                  [last |-> FALSE, dmaen |-> FALSE, itbufen |-> FALSE,
                   itevten |-> FALSE, iterren |-> FALSE,
                   freq |-> AsU8(freqrange(cfg[self].i2cclk))]]
    /\ trace' = Append(trace, Acc("modify", "CR2", AsU8(freqrange(cfg[self].i2cclk))))
    /\ pc' = "x_cr1"
    /\ UNCHANGED <<op, self, owned, cfg, panic>>
    /\ TxnUnchanged

\* (mutant) CR1 is written with PE set before the timing registers
x_cr1_pe_set ==
    /\ pc = "x_cr1"
    /\ regs' = [regs EXCEPT !.i2c[self].cr1 = [pe |-> TRUE]]
    /\ trace' = Append(trace, Acc("write", "CR1", 1))
    /\ pc' = "x_trise"
    /\ UNCHANGED <<op, self, owned, cfg, panic>>
    /\ TxnUnchanged

\* i2c.cr1.write(|w| w.pe().clear_bit());  the whole register is written
x_cr1 ==
    /\ pc = "x_cr1"
    /\ regs' = [regs EXCEPT !.i2c[self].cr1 = [pe |-> FALSE]]
    /\ trace' = Append(trace, Acc("write", "CR1", 0))
    /\ pc' = "x_trise"
    /\ UNCHANGED <<op, self, owned, cfg, panic>>
    /\ TxnUnchanged

\* (mutant) the Fast arm computes the rise time as the Standard arm does
trise_value_same(mode, i2cclk) == AsU8(AsU16(freqrange(i2cclk) + 1))

\* the value given to w.trise().bits(..) in each arm of `match mode`
\* (freqrange * 300 is a u16 product; it stays below 2^16 for every pclk1 < 219 MHz)
trise_value(mode, i2cclk) ==
    IF mode.kind = "Standard"
       THEN AsU8(AsU16(freqrange(i2cclk) + 1))
       ELSE AsU8(AsU16(AsU16(freqrange(i2cclk) * 300) \div 1000 + 1))

\* i2c.trise.write(|w| w.trise().bits(..));
x_trise ==
    /\ pc = "x_trise"
    /\ regs' = [regs EXCEPT !.i2c[self].trise = trise_value(cfg[self].mode, cfg[self].i2cclk)]
    /\ trace' = Append(trace,
          Acc("write", "TRISE", trise_value(cfg[self].mode, cfg[self].i2cclk)))
    /\ pc' = "x_ccr"
    /\ UNCHANGED <<op, self, owned, cfg, panic>>
    /\ TxnUnchanged

\* the multiplier of freq in the divisor of each arm
ccr_factor(mode) ==
    IF mode.kind = "Standard" THEN 2
    ELSE IF mode.duty_cycle = "Ratio1to1" THEN 3 ELSE 25

\* the floor of each arm: .max(4) / .max(1)
ccr_floor(mode) == IF mode.kind = "Standard" THEN 4 ELSE 1

\* (mutant) the floor is applied before the cast: (q.max(floor)) as u16
ccr_value_floor_first(mode, i2cclk) ==
    AsU16(Max(i2cclk \div (get_frequency(mode) * ccr_factor(mode)), ccr_floor(mode)))

\* ((i2cclk / (freq * k)) as u16).max(floor), for freq > 0
ccr_value(mode, i2cclk) ==
    Max(AsU16(i2cclk \div (get_frequency(mode) * ccr_factor(mode))), ccr_floor(mode))

\* the duty bit after the CCR access: Standard modifies (keeps the bit read),
\* Fast writes the whole register with duty = (duty_cycle == Ratio16to9)
ccr_duty(mode, old) ==
    IF mode.kind = "Standard" THEN old ELSE mode.duty_cycle = "Ratio16to9"

\* i2c.ccr.modify(..) / i2c.ccr.write(..); the division panics when freq == 0
x_ccr ==
    /\ pc = "x_ccr"
    /\ IF get_frequency(cfg[self].mode) = 0
          THEN /\ pc' = "panicked"
               /\ panic' = "divide_by_zero"
               /\ UNCHANGED <<regs, trace>>
          ELSE /\ regs' = [regs EXCEPT !.i2c[self].ccr =
                             [ccr |-> ccr_value(cfg[self].mode, cfg[self].i2cclk),
                              duty |-> ccr_duty(cfg[self].mode, @.duty)]]
               /\ trace' = Append(trace,
                     Acc(IF cfg[self].mode.kind = "Standard" THEN "modify" ELSE "write",
                         "CCR", ccr_value(cfg[self].mode, cfg[self].i2cclk)))
               /\ pc' = "x_pe"
               /\ panic' = panic
    /\ UNCHANGED <<op, self, owned, cfg>>
    /\ TxnUnchanged

\* i2c.cr1.modify(|_, w| w.pe().set_bit());  I2c { i2c, pins }
x_pe ==
    /\ pc = "x_pe"
    /\ regs' = [regs EXCEPT !.i2c[self].cr1.pe = TRUE]
    /\ trace' = Append(trace, Acc("modify", "CR1", 1))
    /\ owned' = owned \cup {self}
    /\ pc' = "idle"
    /\ UNCHANGED <<op, self, cfg, panic>>
    /\ TxnUnchanged

\* pub fn free(self) -> ($I2CX, PINS) { (self.i2c, self.pins) }
free ==
    /\ pc = "idle"
    /\ \E h \in owned :
          /\ NewCall("free", h)
          /\ owned' = owned \ {h}
    /\ args' = NoArgs
    /\ buffer' = <<>>
    /\ UNCHANGED <<pc, cfg, regs, panic, sr1>>

-----------------------------------------------------------------------------
(* busy_wait! *)

\* (mutant) the awaited flag is tested before the error flags
busy_wait_flag_first(isr, flag) ==
    IF flag \in isr THEN "break"
    ELSE IF "berr" \in isr THEN "Bus"
    ELSE IF "arlo" \in isr THEN "Arbitration"
    ELSE IF "af" \in isr THEN "Acknowledge"
    ELSE IF "ovr" \in isr THEN "Overrun"
    ELSE "retry"

\* (mutant) the awaited flag never ends the loop
busy_wait_never_break(isr, flag) ==
    IF "berr" \in isr THEN "Bus"
    ELSE IF "arlo" \in isr THEN "Arbitration"
    ELSE IF "af" \in isr THEN "Acknowledge"
    ELSE IF "ovr" \in isr THEN "Overrun"
    ELSE "retry"

\* one iteration of the loop on the SR1 value read: the error it returns,
\* "break" when the awaited flag is set, "retry" otherwise
busy_wait(isr, flag) ==
    IF "berr" \in isr THEN "Bus"
    ELSE IF "arlo" \in isr THEN "Arbitration"
    ELSE IF "af" \in isr THEN "Acknowledge"
    ELSE IF "ovr" \in isr THEN "Overrun"
    ELSE IF flag \in isr THEN "break"
    ELSE "retry"

CtorUnchanged == UNCHANGED <<owned, cfg, panic, sr1>>

\* (mutant) the bus is released with STOP before the error is returned
return_err_stop(e) ==
    /\ pc' = "idle"
    /\ result' = e
    /\ trace' = Append(trace, Acc("set", "CR1_STOP", 0))
    /\ UNCHANGED regs

\* return Err(Error::..) out of the enclosing function
return_err(e) ==
    /\ pc' = "idle"
    /\ result' = e
    /\ UNCHANGED <<regs, trace>>

\* busy_wait!(self.i2c, $flag) at position `here`, continuing at `next`
Wait(here, flag, next) ==
    /\ pc = here
    /\ \E isr \in SR1Values :
          LET out == busy_wait(isr, flag) IN
             /\ poll' = [flag |-> flag, isr |-> isr, out |-> out]
             /\ sr1' = [sr1 EXCEPT ![self] = isr \cap ErrorFlags]
             /\ IF out \in Errors
                   THEN return_err(out)
                   ELSE /\ pc' = IF out = "break" THEN next ELSE here
                        /\ trace' = IF out = "break"
                                       THEN Append(trace, Acc("wait", flag, 0))
                                       ELSE trace
                        /\ UNCHANGED <<regs, result>>
    /\ UNCHANGED <<op, self, args, iter, buffer, owned, cfg, panic>>

\* (mutant) START is set by a write of the whole of CR1, which clears PE
SetStart_write(here, next) ==
    /\ pc = here
    /\ regs' = [regs EXCEPT !.i2c[self].cr1.pe = FALSE]
    /\ trace' = Append(trace, Acc("set", "CR1_START", 0))
    /\ pc' = next
    /\ UNCHANGED <<op, self, args, iter, buffer, poll, result>>
    /\ CtorUnchanged

\* self.i2c.cr1.modify(|_, w| w.start().set_bit());  (the other CR1 bits are kept)
SetStart(here, next) ==
    /\ pc = here
    /\ trace' = Append(trace, Acc("set", "CR1_START", 0))
    /\ pc' = next
    /\ UNCHANGED <<op, self, args, iter, buffer, regs, poll, result>>
    /\ CtorUnchanged

\* self.i2c.dr.write(|w| unsafe { w.dr().bits(v) });
WriteDr(here, v, next, it) ==
    /\ pc = here
    /\ trace' = Append(trace, Acc("write", "DR", v))
    /\ pc' = next
    /\ iter' = it
    /\ UNCHANGED <<op, self, args, buffer, regs, poll, result>>
    /\ CtorUnchanged

\* (mutant) SR2 is not read after the address wait
ReadSr2_skip(here, next) ==
    /\ pc = here
    /\ pc' = next
    /\ iter' = 1
    /\ UNCHANGED <<op, self, args, buffer, regs, poll, result, trace>>
    /\ CtorUnchanged

\* let _ = self.i2c.sr2.read();  then the `for` loop that follows starts
ReadSr2(here, next) ==
    /\ pc = here
    /\ trace' = Append(trace, Acc("read", "SR2", 0))
    /\ pc' = next
    /\ iter' = 1
    /\ UNCHANGED <<op, self, args, buffer, regs, poll, result>>
    /\ CtorUnchanged

\* self.i2c.cr1.modify(|_, w| w.stop().set_bit());  Ok(())
SetStopOk(here) ==
    /\ pc = here
    /\ trace' = Append(trace, Acc("set", "CR1_STOP", 0))
    /\ pc' = "idle"
    /\ result' = "Ok"
    /\ UNCHANGED <<op, self, args, iter, buffer, regs, poll>>
    /\ CtorUnchanged

\* (mutant) the address is sent as given, bit 0 included
write_address_unmasked(addr) == addr

\* addr & 0b1111_1110  and  addr | 0b0000_0001
write_address(addr) == addr - (addr % 2)
read_address(addr) == addr - (addr % 2) + 1

\* assert!(len < 256 && len > 0)
len_ok(slice) == Len(slice) < LenLimit /\ Len(slice) > 0

\* (mutant) the error flags are cleared when a transaction is entered
Call_clear_errors(h, name, a, bs, buf) ==
    /\ pc = "idle"
    /\ h \in owned
    /\ NewCall(name, h)
    /\ args' = [addr |-> a, bytes |-> bs, buffer |-> buf]
    /\ buffer' = buf
    /\ sr1' = [sr1 EXCEPT ![h] = {}]
    /\ UNCHANGED <<owned, cfg, regs>>

\* a transaction is entered on the handle of peripheral h
Call(h, name, a, bs, buf) ==
    /\ pc = "idle"
    /\ h \in owned
    /\ NewCall(name, h)
    /\ args' = [addr |-> a, bytes |-> bs, buffer |-> buf]
    /\ buffer' = buf
    /\ UNCHANGED <<owned, cfg, regs, sr1>>

-----------------------------------------------------------------------------
(* impl Write: fn write(&mut self, addr: u8, bytes: &[u8]) *)

\* (mutant) no wait for tx_e after the last byte
w_loop_no_last(bytes, it) == IF it <= Len(bytes) THEN "w_wait_tx_e" ELSE "w_stop"

\* the head of `for byte in bytes`: the next byte's wait, or past the loop
w_loop(bytes, it) == IF it <= Len(bytes) THEN "w_wait_tx_e" ELSE "w_wait_last"

\* entry:  assert!(bytes.len() < 256 && bytes.len() > 0);
write ==
    \E h \in owned, a \in Addrs, bs \in BytesInputs :
       /\ Call(h, "write", a, bs, <<>>)
       /\ IF len_ok(bs)
             THEN pc' = "w_start" /\ panic' = panic
             ELSE pc' = "panicked" /\ panic' = "assert_bytes_len"

w_start == SetStart("w_start", "w_wait_sb")
w_wait_sb == Wait("w_wait_sb", "sb", "w_addr")
w_addr == WriteDr("w_addr", write_address(args.addr), "w_wait_addr", iter)
w_wait_addr == Wait("w_wait_addr", "addr", "w_sr2")
w_sr2 == ReadSr2("w_sr2", w_loop(args.bytes, 1))
w_wait_tx_e == Wait("w_wait_tx_e", "tx_e", "w_byte")
w_byte == WriteDr("w_byte", args.bytes[iter], w_loop(args.bytes, iter + 1), iter + 1)
w_wait_last == Wait("w_wait_last", "tx_e", "w_stop")
w_stop == SetStopOk("w_stop")

Write_write == write \/ w_start \/ w_wait_sb \/ w_addr \/ w_wait_addr \/ w_sr2
                  \/ w_wait_tx_e \/ w_byte \/ w_wait_last \/ w_stop

-----------------------------------------------------------------------------
(* impl WriteRead: fn write_read(&mut self, addr: u8, bytes: &[u8], buffer: &mut [u8]) *)

wr_loop(bytes, it) == IF it <= Len(bytes) THEN "wr_wait_tx_e" ELSE "wr_wait_last"

\* the head of `for byte in buffer`
wr_rx_loop(buf, it) == IF it <= Len(buf) THEN "wr_wait_rx_ne" ELSE "wr_stop"

\* (mutant) only `bytes` is checked
wr_entry_bytes_only(bs, buf) == IF ~len_ok(bs) THEN "assert_bytes_len" ELSE "ok"

\* the two asserts at entry, in order: the position the call continues at
wr_entry(bs, buf) ==
    IF ~len_ok(bs) THEN "assert_bytes_len"
    ELSE IF ~len_ok(buf) THEN "assert_buffer_len"
    ELSE "ok"

write_read ==
    \E h \in owned, a \in Addrs, bs \in BytesInputs, buf \in BufferInputs :
       /\ Call(h, "write_read", a, bs, buf)
       /\ IF wr_entry(bs, buf) = "ok"
             THEN pc' = "wr_start" /\ panic' = panic
             ELSE pc' = "panicked" /\ panic' = wr_entry(bs, buf)

wr_start == SetStart("wr_start", "wr_wait_sb")
wr_wait_sb == Wait("wr_wait_sb", "sb", "wr_addr")
wr_addr == WriteDr("wr_addr", write_address(args.addr), "wr_wait_addr", iter)
wr_wait_addr == Wait("wr_wait_addr", "addr", "wr_sr2")
wr_sr2 == ReadSr2("wr_sr2", wr_loop(args.bytes, 1))
wr_wait_tx_e == Wait("wr_wait_tx_e", "tx_e", "wr_byte")
wr_byte == WriteDr("wr_byte", args.bytes[iter], wr_loop(args.bytes, iter + 1), iter + 1)
wr_wait_last == Wait("wr_wait_last", "tx_e", "wr_start2")
wr_start2 == SetStart("wr_start2", "wr_wait_sb2")
wr_wait_sb2 == Wait("wr_wait_sb2", "sb", "wr_addr2")
wr_addr2 == WriteDr("wr_addr2", read_address(args.addr), "wr_wait_addr2", iter)
wr_wait_addr2 == Wait("wr_wait_addr2", "addr", "wr_sr2_2")
wr_sr2_2 == ReadSr2("wr_sr2_2", wr_rx_loop(buffer, 1))
wr_wait_rx_ne == Wait("wr_wait_rx_ne", "rx_ne", "wr_store")

\* (mutant) the first two slots are filled in reverse order
store_slot_swap(it) == IF it = 1 THEN 2 ELSE IF it = 2 THEN 1 ELSE it

\* (mutant) every received byte lands in the first slot
store_slot_first(it) == 1

\* the slot of `buffer` that `*byte = ..` assigns in iteration `it`
store_slot(it) == it

\* *byte = self.i2c.dr.read().dr().bits();
wr_store ==
    /\ pc = "wr_store"
    /\ \E v \in SlaveBytes :
          /\ buffer' = [buffer EXCEPT ![store_slot(iter)] = v]
          /\ trace' = Append(trace, Acc("read", "DR", v))
    /\ iter' = iter + 1
    /\ pc' = wr_rx_loop(buffer, iter + 1)
    /\ UNCHANGED <<op, self, args, regs, poll, result>>
    /\ CtorUnchanged

wr_stop == SetStopOk("wr_stop")

WriteRead_write_read ==
    write_read \/ wr_start \/ wr_wait_sb \/ wr_addr \/ wr_wait_addr \/ wr_sr2
       \/ wr_wait_tx_e \/ wr_byte \/ wr_wait_last \/ wr_start2 \/ wr_wait_sb2
       \/ wr_addr2 \/ wr_wait_addr2 \/ wr_sr2_2 \/ wr_wait_rx_ne \/ wr_store \/ wr_stop

-----------------------------------------------------------------------------
(* Specifications *)

i2cX == x_enr \/ x_rst_set \/ x_rst_clr \/ x_assert \/ x_cr2 \/ x_cr1
           \/ x_trise \/ x_ccr \/ x_pe

\* construction and release alone, over the wide set of modes and clocks
NextClock == i2c1(Pins.I2C1, ModesWide, ClocksWide) \/ i2c1_mapr
                \/ i2c2(Pins.I2C2, ModesNarrow, ClocksNarrow)
                \/ i2cX \/ free

SpecClock == Init /\ [][NextClock]_vars

\* a handle's life: construction, transactions on the handle, release
\* (hal! expands to the same code for I2C1 and I2C2; the transactions run on I2C1)
Next == i2c1(PinsNarrow, ModesNarrow, ClocksNarrow) \/ i2c1_mapr
           \/ i2cX \/ free \/ Write_write \/ WriteRead_write_read

Spec == Init /\ [][Next]_vars

\* the processor keeps executing the call it is in, and every wait eventually
\* reads an SR1 value with an error flag or its awaited flag set
Leave == (Write_write \/ WriteRead_write_read) /\ pc # "idle" /\ pc' # pc

\* the SR1 values of the runs checked for termination: no flag, or one flag
SR1Live == {{}} \cup {{f} : f \in Flags}
NextLive == Next /\ poll'.isr \in SR1Live

SpecLive == Init /\ [][NextLive]_vars /\ WF_vars(Leave)

\* the positions at which busy_wait! polls SR1
WaitPcs == {"w_wait_sb", "w_wait_addr", "w_wait_tx_e", "w_wait_last",
            "wr_wait_sb", "wr_wait_addr", "wr_wait_tx_e", "wr_wait_last",
            "wr_wait_sb2", "wr_wait_addr2", "wr_wait_rx_ne"}

\* hardware whose error flags stay set until software clears them: every SR1
\* value read holds the error flags of the value read before it
NextSticky == Next /\ (pc \in WaitPcs => sr1[self] \subseteq poll'.isr)

SpecSticky == Init /\ [][NextSticky]_vars

-----------------------------------------------------------------------------
(* Properties *)

IsPrefix(s, t) == Len(s) <= Len(t) /\ SubSeq(t, 1, Len(s)) = s

InTxn == op \in {"write", "write_read"} /\ pc \notin {"idle", "panicked"}
Valid(slice) == Len(slice) \in 1..255

\* the accesses of an address phase and of the data bytes that follow it
AddressPhase(byte) ==
    << Acc("set", "CR1_START", 0), Acc("wait", "sb", 0), Acc("write", "DR", byte),
       Acc("wait", "addr", 0), Acc("read", "SR2", 0) >>
SendPhase(bytes) ==
    [k \in 1..(2 * Len(bytes)) |->
        IF k % 2 = 1 THEN Acc("wait", "tx_e", 0) ELSE Acc("write", "DR", bytes[k \div 2])]
ReceivePhase(data) ==
    [k \in 1..(2 * Len(data)) |->
        IF k % 2 = 1 THEN Acc("wait", "rx_ne", 0) ELSE Acc("read", "DR", data[k \div 2])]

\* the whole of a successful write, as the specification lists it
WriteAccesses(addr, bytes) ==
    AddressPhase(2 * (addr \div 2)) \o SendPhase(bytes)
       \o << Acc("wait", "tx_e", 0), Acc("set", "CR1_STOP", 0) >>

\* the whole of a successful write_read in which the slave supplied `data`
WriteReadAccesses(addr, bytes, data) ==
    AddressPhase(2 * (addr \div 2)) \o SendPhase(bytes) \o << Acc("wait", "tx_e", 0) >>
       \o AddressPhase(2 * (addr \div 2) + 1) \o ReceivePhase(data)
       \o << Acc("set", "CR1_STOP", 0) >>

\* the bytes the data register returned during the call, in order
IsDrRead(a) == a.acc = "read" /\ a.reg = "DR"
Supplied == LET reads == SelectSeq(trace, IsDrRead)
            IN  [k \in 1..Len(reads) |-> reads[k].val]

\* C1: a write whose waits all see their flag and no error performs exactly
\* START, wait sb, DR <- addr with bit 0 clear, wait addr, read SR2, then
\* (wait tx_e, DR <- byte) per byte, one more wait tx_e, STOP, and returns Ok:
\* at every point of the call the accesses so far are a prefix of that list,
\* the call returns Ok exactly when the list is complete, and it returns
\* otherwise only with an Error from a poll that saw an error flag.
ClaimC1 ==
    (op = "write" /\ pc # "panicked") =>
        /\ IsPrefix(trace, WriteAccesses(args.addr, args.bytes))
        /\ (result = "Ok") = (trace = WriteAccesses(args.addr, args.bytes))
        /\ (pc = "idle") = (result # "none")
        /\ result \in Errors => poll.isr \cap ErrorFlags # {}

WitnessC1 ==
    /\ op = "write" /\ pc = "idle" /\ result = "Ok"
    /\ args.addr = 67 /\ Len(args.bytes) = 2
    /\ trace[3] = Acc("write", "DR", 66)

\* C2: a write_read whose waits all see their flag and no error performs the
\* write phase without STOP, a second START, the address with bit 0 set, one
\* (wait rx_ne, read DR) per buffer slot, STOP as the last access, returns Ok,
\* and leaves in buffer[i] the i-th byte the slave supplied.
ClaimC2 ==
    (op = "write_read" /\ pc # "panicked") =>
        LET pad == [k \in 1..Len(args.buffer) |->
                       IF k <= Len(Supplied) THEN Supplied[k] ELSE 0]
            all == WriteReadAccesses(args.addr, args.bytes, pad)
        IN  /\ Len(Supplied) <= Len(args.buffer)
            /\ IF result = "Ok"
                  THEN /\ trace = all
                       /\ buffer = Supplied
                       /\ pc = "idle"
                  ELSE /\ IsPrefix(trace, all)
                       /\ trace # all
            /\ (pc = "idle") = (result # "none")
            /\ result \in Errors => poll.isr \cap ErrorFlags # {}

WitnessC2 ==
    /\ op = "write_read" /\ pc = "idle" /\ result = "Ok"
    /\ Len(args.bytes) = 1 /\ args.addr = 66
    /\ buffer = <<34, 17>>

\* C3: in every poll of busy_wait!, whatever the SR1 flags: a set error flag
\* makes the wait return an error, never break or retry, even with the
\* awaited flag set; the error is the first set flag in the order
\* berr -> Bus, arlo -> Arbitration, af -> Acknowledge, ovr -> Overrun.
ClaimC3 ==
    poll.out # "none" =>
        /\ poll.isr \cap ErrorFlags # {} => poll.out \in Errors
        /\ "berr" \in poll.isr => poll.out = "Bus"
        /\ ("arlo" \in poll.isr /\ "berr" \notin poll.isr) => poll.out = "Arbitration"
        /\ ("af" \in poll.isr /\ poll.isr \cap {"berr", "arlo"} = {})
              => poll.out = "Acknowledge"
        /\ ("ovr" \in poll.isr /\ poll.isr \cap {"berr", "arlo", "af"} = {})
              => poll.out = "Overrun"
        /\ poll.out \in Errors => (result = poll.out /\ pc = "idle")

WitnessC3 ==
    /\ poll.flag = "tx_e"
    /\ poll.isr = {"af", "ovr", "tx_e"}
    /\ result = "Acknowledge"

\* C4: in write and write_read, the poll that observes an error flag ends the
\* call with the corresponding Err and is followed by no access of the call:
\* the step returns at once, writes no register (no STOP, no START, no DR),
\* and an acknowledge failure seen in an address wait yields Acknowledge.
ClaimC4 ==
    [][ /\ (InTxn /\ poll'.isr \cap ErrorFlags # {} /\ poll' # poll) =>
              /\ pc' = "idle"
              /\ result' \in Errors
              /\ trace' = trace
              /\ regs' = regs
              /\ buffer' = buffer
        /\ (InTxn /\ result' \in Errors) => poll'.out = result'
        /\ (InTxn /\ poll'.flag = "addr" /\ poll' # poll
               /\ "af" \in poll'.isr /\ poll'.isr \cap {"berr", "arlo"} = {})
              => result' = "Acknowledge"
      ]_vars

WitnessC4 ==
    /\ op = "write_read" /\ pc = "idle" /\ result = "Acknowledge"
    /\ poll.flag = "addr" /\ "addr" \in poll.isr
    /\ Len(trace) > 5

\* C5: write with a `bytes` length outside 1..255, and write_read with a
\* `bytes` or `buffer` length outside 1..255, panic at entry before any
\* register access: nothing is accessed, no register changes, the buffer is
\* as the caller passed it, and no typed Error is returned.
ClaimC5 ==
    [][ (pc = "idle" /\ op' \in {"write", "write_read"}) =>
           IF ~Valid(args'.bytes) \/ (op' = "write_read" /\ ~Valid(args'.buffer))
              THEN /\ pc' = "panicked"
                   /\ panic' \in {"assert_bytes_len", "assert_buffer_len"}
                   /\ trace' = <<>>
                   /\ regs' = regs
                   /\ buffer' = args'.buffer
                   /\ result' = "none"
              ELSE pc' # "panicked" /\ panic' = "none"
      ]_vars

WitnessC5 ==
    /\ pc = "panicked" /\ op = "write_read" /\ panic = "assert_buffer_len"
    /\ Len(args.bytes) = 1 /\ Len(args.buffer) = 256
    /\ trace = <<>>

Configured(h) == h \in owned \/ (pc = "x_pe" /\ self = h)
InCtor == op \in {"i2c1", "i2c2"}
I2cRegs == {"CR1", "CR2", "TRISE", "CCR"}
Touches(R) == \E k \in 1..Len(trace) : trace[k].reg \in R

\* C6: a constructor given a frequency above 400_000 aborts before it writes
\* any I2C register: it never gets past the assert, and at the abort its
\* accesses include none of CR1, CR2, TRISE, CCR.
ClaimC6 ==
    (InCtor /\ cfg[self].mode.frequency > 400000) =>
        /\ ~Touches(I2cRegs)
        /\ pc \in {"i2c1_mapr", "x_enr", "x_rst_set", "x_rst_clr", "x_assert", "panicked"}
        /\ pc = "panicked" => panic = "assert_freq"
        /\ self \notin owned

WitnessC6 ==
    /\ pc = "panicked" /\ panic = "assert_freq" /\ op = "i2c1"
    /\ cfg["I2C1"].mode = Fast(400001, "Ratio1to1")

\* C7: the frequency check comes before any hardware interaction: at the
\* abort for a frequency above 400_000 neither AFIO MAPR nor the APB1
\* clock-enable and reset registers nor any I2C register has been accessed.
ClaimC7 ==
    (pc = "panicked" /\ panic = "assert_freq") =>
        ~Touches({"AFIO_MAPR", "APB1_ENR", "APB1_RSTR"} \cup I2cRegs)

\* C8: the divider written to CCR is never below the mode's floor: at least 4
\* in Standard mode for 0 < f <= 100_000, at least 1 in Fast mode for
\* 0 < f <= 400_000 with either duty cycle, also when the quotient does not
\* fit 16 bits.
ClaimC8 ==
    \A h \in Periphs :
       Configured(h) =>
          LET m == cfg[h].mode
              v == regs.i2c[h].ccr.ccr
          IN  /\ (m.kind = "Standard" /\ m.frequency > 0 /\ m.frequency <= 100000) => v >= 4
              /\ (m.kind = "Fast" /\ m.frequency > 0 /\ m.frequency <= 400000) => v >= 1

WitnessC8 ==
    /\ "I2C1" \in owned
    /\ cfg["I2C1"].mode = Standard(100) /\ cfg["I2C1"].i2cclk = 13107200
    /\ cfg["I2C1"].i2cclk \div (2 * 100) >= 65536
    /\ regs.i2c["I2C1"].ccr.ccr = 4

\* C9: after a completed construction the duty bit of CCR is set exactly when
\* the mode is Fast with Ratio16to9 (clear for Fast Ratio1to1 and for Standard).
ClaimC9 ==
    \A h \in owned :
       regs.i2c[h].ccr.duty =
          (cfg[h].mode.kind = "Fast" /\ cfg[h].mode.duty_cycle = "Ratio16to9")

WitnessC9 ==
    /\ "I2C1" \in owned /\ op = "i2c1" /\ pc = "idle"
    /\ cfg["I2C1"].mode.kind = "Standard"
    /\ ~regs.i2c["I2C1"].ccr.duty
    /\ regs.i2c["I2C2"].ccr.duty

\* C10: for every i2cclk and every 0 < f <= 400_000 the divider written equals
\* max(floor, i2cclk / (f * k)) computed in unbounded integers (k = 2, 3, 25;
\* floor = 4, 1, 1) and the rise time equals freqrange + 1 (Standard) or
\* freqrange * 300 / 1000 + 1 (Fast), with freqrange = i2cclk / 1_000_000.
ClaimC10 ==
    \A h \in Periphs :
       Configured(h) =>
          LET m == cfg[h].mode
              f == m.frequency
              clk == cfg[h].i2cclk
              fr == clk \div 1000000
              k == IF m.kind = "Standard" THEN 2
                   ELSE IF m.duty_cycle = "Ratio1to1" THEN 3 ELSE 25
              q == clk \div (f * k)
              floor == IF m.kind = "Standard" THEN 4 ELSE 1
          IN  (f > 0 /\ f <= 400000) =>
                /\ regs.i2c[h].ccr.ccr = (IF q >= floor THEN q ELSE floor)
                /\ regs.i2c[h].trise =
                      (IF m.kind = "Standard" THEN fr + 1 ELSE (fr * 300) \div 1000 + 1)

\* The rise time the constructor computes for `mode` with the frequency kept
\* and the mode's kind exchanged, from the same clock
OtherKind(mode) ==
    IF mode.kind = "Standard" THEN Fast(mode.frequency, "Ratio1to1")
                              ELSE Standard(mode.frequency)
FastRise(h) ==
    IF cfg[h].mode.kind = "Fast" THEN regs.i2c[h].trise
    ELSE trise_value(OtherKind(cfg[h].mode), cfg[h].i2cclk)
StandardRise(h) ==
    IF cfg[h].mode.kind = "Standard" THEN regs.i2c[h].trise
    ELSE trise_value(OtherKind(cfg[h].mode), cfg[h].i2cclk)

\* C11: for every freqrange = i2cclk / 1_000_000, 0 included, the rise time
\* written in Fast mode is strictly less than the one computed for Standard
\* mode from the same freqrange (and the one written in Standard mode is
\* strictly more than the one computed for Fast mode).
ClaimC11 ==
    \A h \in Periphs : Configured(h) => FastRise(h) < StandardRise(h)

\* C11 as amended: strictly less for every freqrange from 1 to 36 (pclk1 from
\* 1 MHz to 36 MHz); for freqrange = 0 (pclk1 below 1 MHz) the two are equal,
\* both 1.
ClaimC11Amended ==
    \A h \in Periphs :
       Configured(h) =>
          IF cfg[h].i2cclk \div 1000000 >= 1
             THEN FastRise(h) < StandardRise(h)
             ELSE FastRise(h) = 1 /\ StandardRise(h) = 1

WitnessC11 ==
    /\ "I2C1" \in owned
    /\ cfg["I2C1"].mode.kind = "Fast" /\ cfg["I2C1"].i2cclk = 1000000
    /\ regs.i2c["I2C1"].trise = 1

\* the I2C registers the constructor has accessed so far, in order
IsI2cAcc(a) == a.reg \in I2cRegs
I2cAccesses == SelectSeq(trace, IsI2cAcc)
I2cOrder == [k \in 1..Len(I2cAccesses) |-> I2cAccesses[k].reg]

\* C12: during construction CR1 is written with PE clear, then TRISE, then
\* CCR, and PE is set by the last write; no timing register (the CR2
\* frequency field, TRISE, CCR) is written while PE is set.
ClaimC12 ==
    InCtor =>
       /\ IsPrefix(I2cOrder, <<"CR2", "CR1", "TRISE", "CCR", "CR1">>)
       /\ Len(I2cAccesses) >= 2 => I2cAccesses[2] = Acc("write", "CR1", 0)
       /\ pc \in {"x_cr2", "x_trise", "x_ccr"} => ~regs.i2c[self].cr1.pe
       /\ regs.i2c[self].cr1.pe => (pc = "idle" \/ Len(I2cAccesses) = 0)
       /\ (pc = "idle" /\ self \in owned) =>
             /\ I2cOrder = <<"CR2", "CR1", "TRISE", "CCR", "CR1">>
             /\ trace[Len(trace)] = Acc("modify", "CR1", 1)
             /\ regs.i2c[self].cr1.pe

WitnessC12 ==
    /\ op = "i2c2" /\ pc = "idle" /\ "I2C2" \in owned
    /\ I2cOrder = <<"CR2", "CR1", "TRISE", "CCR", "CR1">>
    /\ regs.i2c["I2C2"].cr1.pe

\* addr with bit 0 inverted
FlipBit0(addr) == IF addr % 2 = 0 THEN addr + 1 ELSE addr - 1

\* the accesses the call in progress would make, to the end, had it been given `a`
\* as address (same bytes, same buffer length, same bytes from the slave)
AccessesFor(a) ==
    IF op = "write"
       THEN WriteAccesses(a, args.bytes)
       ELSE WriteReadAccesses(a, args.bytes,
               [k \in 1..Len(args.buffer) |->
                   IF k <= Len(Supplied) THEN Supplied[k] ELSE 0])

\* the data-register writes of the call that carry the address: the one after
\* each START
IsAddressByte(k) ==
    /\ k > 2
    /\ trace[k].acc = "write" /\ trace[k].reg = "DR"
    /\ trace[k - 2] = Acc("set", "CR1_START", 0)

\* C13: bit 0 of addr has no effect: what the call does is what the same call
\* with bit 0 of addr inverted does (accesses, result, buffer), and the
\* address byte sent keeps bits 1-7 of addr, with bit 0 = 0 after the first
\* START and bit 0 = 1 after the repeated START.
ClaimC13 ==
    (op \in {"write", "write_read"} /\ pc # "panicked") =>
        /\ IsPrefix(trace, AccessesFor(FlipBit0(args.addr)))
        /\ (result = "Ok") = (trace = AccessesFor(FlipBit0(args.addr)))
        /\ result = "Ok" /\ op = "write_read" => buffer = Supplied
        /\ \A k \in 1..Len(trace) :
              IsAddressByte(k) =>
                 /\ trace[k].val \div 2 = args.addr \div 2
                 /\ trace[k].val % 2 = (IF k = 3 THEN 0 ELSE 1)

WitnessC13 ==
    /\ op = "write_read" /\ pc = "idle" /\ result = "Ok"
    /\ args.addr = 67
    /\ \E k \in 4..Len(trace) : IsAddressByte(k) /\ trace[k].val = 67
    /\ trace[3].val = 66

IsWait(a) == a.acc = "wait"

\* the waits the call has entered: those passed, and the one it is in or failed in
WaitsEntered ==
    Len(SelectSeq(trace, IsWait)) + (IF pc \in WaitPcs \/ result \in Errors THEN 1 ELSE 0)
WaitLimit ==
    IF op = "write" THEN Len(args.bytes) + 3
                    ELSE Len(args.bytes) + Len(args.buffer) + 5

\* C14: a started write or write_read returns exactly when each wait it enters
\* eventually reads an error flag or its awaited flag: a poll that reads
\* neither leaves the call in the same wait with nothing changed, any other
\* poll ends the wait; the call enters at most len(bytes)+3 (write) or
\* len(bytes)+len(buffer)+5 (write_read) waits; while in its first wait it has
\* done nothing but set START; and when every wait eventually reads such a
\* value, the call returns.
ClaimC14 ==
    /\ [](op \in {"write", "write_read"} /\ pc # "panicked" =>
             /\ WaitsEntered <= WaitLimit
             /\ pc \in {"w_wait_sb", "wr_wait_sb"} =>
                   trace = <<Acc("set", "CR1_START", 0)>>)
    /\ [][ (InTxn /\ poll' # poll) =>
              /\ pc \in WaitPcs
              /\ (pc' = pc) = (poll'.isr \cap (ErrorFlags \cup {poll'.flag}) = {})
              /\ pc' = pc => (trace' = trace /\ regs' = regs
                                /\ buffer' = buffer /\ result' = "none")
         ]_vars
    /\ (InTxn ~> pc = "idle")

WitnessC14 ==
    /\ pc = "w_wait_sb" /\ poll.out = "retry" /\ poll.isr = {}
    /\ trace = <<Acc("set", "CR1_START", 0)>>

Enabled(h) == regs.i2c[h].cr1.pe
Running == pc \notin {"idle", "panicked"}

\* C15: once construction has completed the peripheral-enable bit stays set:
\* every handle's peripheral is enabled in every state, no step of write,
\* write_read or free changes a register (so none clears PE or resets the
\* peripheral) or the configuration the constructor was given, and free makes
\* no register access and leaves the peripheral it returns enabled.
ClaimC15 ==
    /\ [](\A h \in owned : Enabled(h))
    /\ [](op = "free" => Enabled(self) /\ trace = <<>> /\ self \notin owned)
    /\ [][ op' \in {"write", "write_read", "free"} =>
              /\ regs' = regs
              /\ cfg' = cfg
              /\ owned' = IF op' = "free" /\ pc = "idle" /\ self' \in owned
                             THEN owned \ {self'} ELSE owned
         ]_vars

WitnessC15 ==
    /\ op = "write_read" /\ result \in Errors /\ Len(trace) > 1
    /\ self \in owned /\ Enabled(self)

\* C16: at most one handle exists for a peripheral: a constructor runs only
\* on a peripheral no handle owns, a transaction runs only on a peripheral a
\* handle owns, free leaves the peripheral without a handle, and a handle
\* ceases to exist only by free.
ClaimC16 ==
    /\ []((InCtor /\ Running) => self \notin owned)
    /\ [](InTxn => self \in owned)
    /\ [](op = "free" => self \notin owned)
    /\ [][ /\ (owned' # owned /\ owned' \subseteq owned) =>
                 (op' = "free" /\ self' \in owned /\ owned' = owned \ {self'})
           /\ (owned' # owned /\ owned \subseteq owned') =>
                 (InCtor /\ pc = "x_pe" /\ owned' = owned \cup {self})
           /\ (pc = "idle" /\ op' \in {"write", "write_read"}) => self' \in owned
         ]_vars

\* a second construction under way on a peripheral that an earlier handle,
\* since freed, left enabled
WitnessC16 ==
    /\ op = "i2c1" /\ pc = "i2c1_mapr" /\ Enabled("I2C1") /\ "I2C1" \notin owned

IsSr2Read(a) == a.acc = "read" /\ a.reg = "SR2"
IsAddrWait(a) == a.acc = "wait" /\ a.reg = "addr"
Sr2Reads == Len(SelectSeq(trace, IsSr2Read))
AddrWaits == Len(SelectSeq(trace, IsAddrWait))

\* C17: every passed address wait is followed at once by the read of SR2 (no
\* DR access and no START or STOP between them), every SR2 read follows an
\* address wait, a write that returns Ok has made exactly one SR2 read, and a
\* write_read that has reached its read phase exactly two.
ClaimC17 ==
    (op \in {"write", "write_read"} /\ pc # "panicked") =>
       /\ \A k \in 1..Len(trace) :
             /\ IsAddrWait(trace[k]) =>
                   IF k = Len(trace)
                      THEN pc \in {"w_sr2", "wr_sr2", "wr_sr2_2"}
                      ELSE IsSr2Read(trace[k + 1])
             /\ IsSr2Read(trace[k]) => (k > 1 /\ IsAddrWait(trace[k - 1]))
       /\ pc \in {"w_sr2", "wr_sr2", "wr_sr2_2"} =>
             (trace # <<>> /\ IsAddrWait(trace[Len(trace)]))
       /\ (op = "write" /\ result = "Ok") => Sr2Reads = 1
       /\ op = "write" => Sr2Reads <= 1
       /\ (op = "write_read" /\ (result = "Ok" \/ pc \in {"wr_wait_rx_ne", "wr_store", "wr_stop"}
                                  \/ (result \in Errors /\ poll.flag = "rx_ne")))
             => Sr2Reads = 2
       /\ op = "write_read" => Sr2Reads <= 2

WitnessC17 ==
    /\ op = "write_read" /\ result = "Ok" /\ Sr2Reads = 2 /\ AddrWaits = 2

\* C18: construction aborts exactly when frequency > 400_000: an abort in a
\* constructor happens only for such a frequency and before any I2C register
\* is written, and a constructor given a frequency in 0..400_000 (0 included)
\* never aborts.
ClaimC18 ==
    (InCtor /\ pc = "panicked") =>
        /\ cfg[self].mode.frequency > MaxFrequency
        /\ ~Touches(I2cRegs)

IsDrWrite(a) == a.acc = "write" /\ a.reg = "DR"
StartOnly == <<Acc("set", "CR1_START", 0)>>

\* C19: the driver never writes SR1 and never clears an error flag; so on
\* hardware whose error flags stay set, once a write or write_read has
\* returned an Error the flags stay set on that handle, and every later write
\* or write_read on it (one that passes its length asserts; one that does not
\* aborts before any access) sets START and returns an Error from its first
\* wait without writing DR: none returns Ok.
ClaimC19 ==
    /\ [](\A k \in 1..Len(trace) : trace[k].reg # "SR1")
    /\ []((op \in {"write", "write_read"} /\ result \in Errors) => sr1[self] # {})
    /\ []((InTxn /\ sr1[self] # {}) =>
             /\ pc \in {"w_start", "w_wait_sb", "wr_start", "wr_wait_sb"}
             /\ trace = IF pc \in WaitPcs THEN StartOnly ELSE <<>>)
    /\ [][ (op' \in {"write", "write_read"} /\ self' \in owned /\ sr1[self'] # {}) =>
              /\ sr1[self'] \subseteq sr1'[self']
              /\ result' # "Ok"
              /\ SelectSeq(trace', IsDrWrite) = <<>>
              /\ pc \in WaitPcs =>
                    (pc' = "idle" /\ result' \in Errors /\ trace' = StartOnly
                       /\ poll'.flag = "sb")
              /\ pc = "idle" => pc' \in {"w_start", "wr_start", "panicked"}
         ]_vars

\* a later call on a handle whose earlier call returned an Error: it has set
\* START and is in its first wait with the acknowledge-failure flag still set
WitnessC19 ==
    /\ op = "write_read" /\ pc = "wr_wait_sb" /\ sr1[self] = {"af"}
    /\ trace = StartOnly /\ poll = NoPoll

IsRxWait(a) == a.acc = "wait" /\ a.reg = "rx_ne"
RxWaits == Len(SelectSeq(trace, IsRxWait))
Rest(k) == SubSeq(args.buffer, k + 1, Len(args.buffer))

\* C20: when write_read returns an Error the buffer is modified only in a
\* prefix: if the error was read in the wait for received byte k (0-based) the
\* first k slots hold the k bytes received, in order, and the slots from k on
\* hold what they held at the call; if it was read in any earlier wait the
\* whole buffer is as it was at the call.
ClaimC20 ==
    (op = "write_read" /\ result \in Errors) =>
        /\ Len(buffer) = Len(args.buffer)
        /\ IF poll.flag = "rx_ne"
              THEN /\ Len(Supplied) = RxWaits
                   /\ RxWaits < Len(buffer)
                   /\ buffer = Supplied \o Rest(RxWaits)
              ELSE /\ Supplied = <<>>
                   /\ buffer = args.buffer

\* the error is read in the wait for the second byte of a two-slot buffer
WitnessC20 ==
    /\ op = "write_read" /\ result \in Errors /\ poll.flag = "rx_ne"
    /\ Len(buffer) = 2 /\ RxWaits = 1
    /\ buffer[1] \in SlaveBytes /\ buffer[2] = args.buffer[2]
    /\ buffer[1] # args.buffer[1]

====
